---- MODULE Spec2Model ----
(***************************************************************************)
(* Model of the mudbot agent: the supervisory loop of agent.py, the        *)
(* LangGraph control graph of graph.py (planner -> observe -> start_kb_bg  *)
(* -> analyze -> act -> sync_kb), the task/phase manager of planner.py and *)
(* the background knowledge worker of nodes.py running on the process-wide *)
(* single-thread executor.                                                 *)
(*                                                                         *)
(* Python objects that are shared by reference are modelled as such: the   *)
(* task dicts live in `heap`, the state's task list is a reference into    *)
(* it, and a worker snapshot made by list(...) holds the same reference.   *)
(* Objects nothing refers to any more are dropped from the model (Collect, *)
(* Norm), as they can no longer be observed.  Oracle (LLM) answers, socket *)
(* results and thread scheduling are nondeterministic inputs.              *)
(***************************************************************************)
EXTENDS Integers, Sequences, FiniteSets, TLC

----------------------------------------------------------------------------
(* Bounds of the exploration *)

\* number of phases the planner may open
MaxPhase == 2
\* number of background jobs submitted to the executor (= scheduler cycles)
MaxJobs == 3
\* number of successful connects of the supervisory loop
MaxRuns == 2
\* distinct knowledge contents the oracle may propose
MaxContent == 2
\* jobs given up at the join timeout that are still unfinished at one time
MaxAbandoned == 1
\* number of oracle queries followed within one call_with_retry call
MaxQueries == 8
\* config.MAX_HISTORY_ROUNDS (50 in config.py), scaled down; analyze and
\* manage_knowledge use it to cut the view of the history put into a prompt
MAX_HISTORY_ROUNDS == 2
\* config.MAX_TASK_ATTEMPTS (50 in config.py), scaled down
MAX_TASK_ATTEMPTS == 2
\* config.KB_CONSOLIDATION_INTERVAL (20 in config.py), scaled down
KB_CONSOLIDATION_INTERVAL == 2

\* The oracle answers two kinds of questions: about the tasks (is the task done
\* or stuck, what to send, which tasks make the next phase, what to do with a
\* stuck task) and about the knowledge (which entries to add, how to rewrite the
\* list).  A behaviour explores every answer of one kind and one fixed answer
\* of the other; which kind, is chosen at the start.  Whether the oracle
\* reports the task completed, socket results, join outcomes and thread
\* scheduling vary in every behaviour.
Focus == {"tasks", "knowledge"}

----------------------------------------------------------------------------
VARIABLES
  pc,                       \* position of the primary thread
  run,                      \* number of successful connects so far
  phase,
  tasks_ref,                \* state["tasks"]: 0 = [], else index of the list in heap
  heap,                     \* the task dict objects, one list per generated task list
  current_task,
  task_attempts,
  task_completed,
  task_stuck,
  task_stuck_reason,
  should_reconnect,
  should_exit,
  environment_type,
  payload,
  server_output,            \* state["server_output"] and its cleaned form
  history,                  \* number of entries of state["history"]
  completed_phases,
  knowledge_base,
  kb_consolidation_counter,
  kb_update_future,         \* 0 = None, else the job (Future) submitted
  jobs,                     \* the executor's jobs that can still be observed, in
                            \* submission order
  njobs,                    \* number of jobs submitted so far (jobs are named 1, 2, ..)
  disk,                     \* knowledge_base_phase_<p>.json, per phase
  interrupted,              \* <<list, index>> of the task that was in_progress when
                            \* the connection was lost and that is not yet resumed;
                            \* third item: the current task is a resumed one, not yet
                            \* analysed again
  focus,                    \* which of the oracle's answers vary in this behaviour
  saved,                    \* main's current_state while the graph runs: the dict
                            \* given to compiled_graph.invoke
  call                      \* the locals of one LLMClient.call_with_retry call

ctl == <<pc, run, should_reconnect, should_exit, payload, server_output>>
tsk == <<phase, tasks_ref, heap, current_task, task_attempts, task_completed,
         task_stuck, task_stuck_reason, environment_type, completed_phases>>
kbv == <<knowledge_base, kb_consolidation_counter, kb_update_future>>
aux == <<saved, call>>
vars == <<ctl, tsk, kbv, history, jobs, njobs, disk, interrupted, focus, aux>>

\* the answers explored for a question of the given kind
Vary(kind, all, fixed) == IF focus = kind THEN all ELSE fixed

\* the fields of main's current_state that the reconnect block does not reset
\* (tasks_ref: the list object it holds; its task dicts are shared with the
\* running graph)
CurrentState ==
  [phase                    |-> phase,
   tasks_ref                |-> tasks_ref,
   current_task             |-> current_task,
   task_attempts            |-> task_attempts,
   task_completed           |-> task_completed,
   task_stuck               |-> task_stuck,
   task_stuck_reason        |-> task_stuck_reason,
   environment_type         |-> environment_type,
   completed_phases         |-> completed_phases,
   knowledge_base           |-> knowledge_base,
   kb_consolidation_counter |-> kb_consolidation_counter,
   history                  |-> history]

\* no call_with_retry call is looked at
NoCall == [st |-> "none", validator |-> FALSE, retry_delay |-> 0, result |-> "none",
           queries |-> 0, slept |-> <<>>, fails |-> <<>>]

----------------------------------------------------------------------------
(* Tasks *)

\* a task dict; a key that is absent ("plan" before planning) is "none".
\* result: "none" (None), "summary" (a result text), or a stuck reason:
\* "oracle" (the oracle's text) or "ceiling" (the attempts-exceeded text)
Task(id, status, plan, result, desc) ==
  [id |-> id, status |-> status, plan |-> plan, result |-> result, desc |-> desc]

\* the empty dict {} : no key present (id 0 stands for a missing "id")
EmptyTask == Task(0, "none", "none", "none", "none")

PHASE1_TASKS ==
  << Task(1, "pending", "none", "none", "orig"),
     Task(2, "pending", "none", "none", "orig") >>

\* the id lists the oracle may answer _generate_phase_tasks with: the ids are
\* taken from the answer unchecked, so they may repeat, and the list may be empty
TaskIdChoices == Vary("tasks", { <<>>, <<1>>, <<1, 2>>, <<1, 1>> }, { <<1>> })

\* tasks that are born in_progress
generate_phase_tasks_started(ids) ==
  [i \in DOMAIN ids |-> Task(ids[i], "in_progress", "none", "none", "orig")]

\* _generate_phase_tasks: every task of the answer starts as pending, without result
generate_phase_tasks(ids) ==
  [i \in DOMAIN ids |-> Task(ids[i], "pending", "none", "none", "orig")]

\* the task list a reference stands for
TasksOf(h, r) == IF r = 0 THEN <<>> ELSE h[r]

tasks == TasksOf(heap, tasks_ref)

\* index of the first task with the given id (for t in tasks: if t["id"] == id: ... break)
FirstWithId(ts, id) ==
  IF \E i \in DOMAIN ts : ts[i].id = id
    THEN CHOOSE i \in DOMAIN ts : ts[i].id = id /\ \A k \in 1..(i - 1) : ts[k].id # id
    ELSE 0

FirstWithStatus(ts, st) ==
  IF \E i \in DOMAIN ts : ts[i].status = st
    THEN CHOOSE i \in DOMAIN ts :
           ts[i].status = st /\ \A k \in 1..(i - 1) : ts[k].status # st
    ELSE 0

\* planner step 3 without the search for an interrupted task
NextTaskPendingOnly(ts) == FirstWithStatus(ts, "pending")

\* a step 3 that takes the last pending task of the list
NextTaskLastPending(ts) ==
  IF FirstWithStatus(ts, "in_progress") # 0
    THEN FirstWithStatus(ts, "in_progress")
  ELSE IF \E i \in DOMAIN ts : ts[i].status = "pending"
    THEN CHOOSE i \in DOMAIN ts :
           ts[i].status = "pending" /\ \A k \in (i + 1)..Len(ts) : ts[k].status # "pending"
  ELSE 0

\* planner step 3: an in_progress task first, else the first pending one, else none
NextTask(ts) ==
  IF FirstWithStatus(ts, "in_progress") # 0
    THEN FirstWithStatus(ts, "in_progress")
    ELSE FirstWithStatus(ts, "pending")

\* a check that is content with one finished task
AnyDone(ts) == \E i \in DOMAIN ts : ts[i].status \in {"completed", "skipped"}

AllDone(ts) == \A i \in DOMAIN ts : ts[i].status \in {"completed", "skipped"}

\* in-place update of one task dict of list r
SetTask(h, r, i, t) == IF r = 0 \/ i = 0 THEN h ELSE [h EXCEPT ![r][i] = t]

Statuses(ts) == [i \in DOMAIN ts |-> ts[i].status]

\* task lists that neither the state, nor main's current_state, nor a job
\* still to read them refers to are garbage
Collect(h, r, js) ==
  [x \in DOMAIN h |->
     IF \/ x = r
        \/ x = saved.tasks_ref
        \/ \E k \in DOMAIN js : js[k].st = "queued" /\ js[k].ref = x
       THEN h[x] ELSE <<>>]

----------------------------------------------------------------------------
(* Knowledge entries and the persisted store *)

\* an item of a knowledge file or list.  src tells where the entry comes from:
\* the name of the job that produced it while that job is not joined, 0 once it
\* is part of joined state (or was on disk at startup), Abandoned if the job
\* that produced it was given up at the join timeout
Entry(content, category, src) ==
  [kind |-> "dict", content |-> content, category |-> category, src |-> src]

\* an upgrade that gives every item the category of a legacy string
UpgradeItemAll(x) == Entry(x.content, "unknown", x.src)

\* load_kb: legacy strings are upgraded, dicts are kept, anything else is dropped
UpgradeItem(x) ==
  IF x.kind = "str" THEN Entry(x.content, "unknown", x.src) ELSE x

\* a load that keeps the dicts only
load_kb_dicts_only(file) == SelectSeq(file, LAMBDA x : x.kind = "dict")

load_kb(file) ==
  LET keep == SelectSeq(file, LAMBDA x : x.kind \in {"str", "dict"})
  IN  [i \in DOMAIN keep |-> UpgradeItem(keep[i])]

\* save_kb writes the list as it is
save_kb(kb) == kb

\* an entry as the aggregated view shows it: entry.get("from_phase", phase)
Shown(x, p) == [content |-> x.content, category |-> x.category, from_phase |-> p]

\* a loop that stops one phase early: range(1, current_phase - 1)
RECURSIVE load_all_previous_kb_short(_, _)
load_all_previous_kb_short(d, current_phase) ==
  IF current_phase <= 2 THEN <<>>
  ELSE load_all_previous_kb_short(d, current_phase - 1)
         \o [i \in DOMAIN load_kb(d[current_phase - 2]) |->
               Shown(load_kb(d[current_phase - 2])[i], current_phase - 2)]

\* load_all_previous_kb: the files of the phases 1 .. current_phase - 1, in
\* this order, every entry with its phase
RECURSIVE load_all_previous_kb(_, _)
load_all_previous_kb(d, current_phase) ==
  IF current_phase <= 1 THEN <<>>
  ELSE load_all_previous_kb(d, current_phase - 1)
         \o [i \in DOMAIN load_kb(d[current_phase - 1]) |->
               Shown(load_kb(d[current_phase - 1])[i], current_phase - 1)]

\* get_aggregated_kb: the earlier phases' files, then the current list
get_aggregated_kb(d, current_phase, current_kb) ==
  load_all_previous_kb(d, current_phase)
    \o [i \in DOMAIN current_kb |-> Shown(current_kb[i], current_phase)]

Abandoned == 0 - 1

\* bookkeeping of src: the entries of job `id` get the mark `to`
Retag(kb, id, to) ==
  [i \in DOMAIN kb |-> IF kb[i].src = id THEN [kb[i] EXCEPT !.src = to] ELSE kb[i]]

\* a join that rewrites the files without the entries of the joined job
RetagDisk_rewriting(d, id, to) ==
  [p \in DOMAIN d |-> SelectSeq(d[p], LAMBDA x : x.src # id)]

RetagDisk(d, id, to) == [p \in DOMAIN d |-> Retag(d[p], id, to)]

RetagJobs(js, id, to) == [k \in DOMAIN js |-> [js[k] EXCEPT !.kb = Retag(js[k].kb, id, to)]]

----------------------------------------------------------------------------
\* the state main() builds before the loop, with `file` as the knowledge file
\* of phase 1
StartWith(file) ==
  /\ pc = "connect"
  /\ run = 0
  /\ phase = 1
  /\ tasks_ref = 0
  /\ heap = <<>>
  /\ current_task = EmptyTask
  /\ task_attempts = 0
  /\ task_completed = FALSE
  /\ task_stuck = FALSE
  /\ task_stuck_reason = "none"
  /\ should_reconnect = FALSE
  /\ should_exit = FALSE
  /\ environment_type = "unknown"
  /\ payload = ""
  /\ server_output = ""
  /\ history = 0
  /\ completed_phases = <<>>
  /\ disk = [p \in 1..MaxPhase |-> IF p = 1 THEN file ELSE <<>>]
  /\ knowledge_base = load_kb(disk[1])
  /\ kb_consolidation_counter = 0
  /\ kb_update_future = 0
  /\ jobs = <<>>
  /\ njobs = 0
  /\ interrupted = <<0, 0, FALSE>>
  /\ saved = CurrentState

\* a first start: no knowledge file yet
Init == StartWith(<<>>) /\ focus \in Focus /\ call = NoCall

\* what a knowledge file left by an earlier run or an older version may hold:
\* entry dicts, legacy plain strings, and items that are neither
LegacyStr(c) == [kind |-> "str", content |-> c, category |-> "none", src |-> 0]

OtherItem == [kind |-> "other", content |-> 0, category |-> "none", src |-> 0]

StoreFiles ==
  { <<>>,
    <<LegacyStr(1)>>,
    <<Entry(1, "input_triggered", 0)>>,
    <<LegacyStr(1), Entry(2, "input_triggered", 0)>>,
    <<OtherItem, Entry(1, "input_triggered", 0)>> }

\* a start over an existing knowledge file; the task oracle's answers are the
\* fixed ones
InitStore ==
  (\E file \in StoreFiles : StartWith(file)) /\ focus = "knowledge" /\ call = NoCall

----------------------------------------------------------------------------
(* graph.py: the routers, and what main() does when the graph reaches END *)

\* a router that does not look at should_exit
route_after_planner_on(exit) == "observe"

route_after_planner(exit) == IF exit THEN "end" ELSE "observe"

\* a router that does not look at should_reconnect
route_after_observe_on(reconnect) == "start_kb_bg"

\* a router that ends the graph after every read
route_after_observe_end(reconnect) == "end"

route_after_observe(reconnect) == IF reconnect THEN "end" ELSE "start_kb_bg"

route_after_act(reconnect) == IF reconnect THEN "end" ELSE "sync_kb"

route_after_sync_kb(completed, stuck) ==
  IF completed THEN "planner" ELSE IF stuck THEN "planner" ELSE "observe"

\* a loop that any end of the graph terminates
after_graph_end_break(exit) == "exited"

\* agent.py: should_exit ends the process, anything else sleeps and reconnects
\* (should_stop is set by no node)
after_graph_end(exit) == IF exit THEN "exited" ELSE "sleep"

Goto(route, exit) == IF route = "end" THEN after_graph_end(exit) ELSE route

\* the connection is lost: the task the list holds as in_progress is noted
LostWith(ts, r) ==
  IF FirstWithStatus(ts, "in_progress") = 0
    THEN <<0, 0, FALSE>>
    ELSE <<r, FirstWithStatus(ts, "in_progress"), FALSE>>

\* the planner assigned a current task
Resumed(was) == IF was[1] # 0 THEN <<0, 0, TRUE>> ELSE was

----------------------------------------------------------------------------
(* The executor's jobs *)

Finished(job) == job.st \in {"done", "failed"}

\* a finished job whose Future the state no longer holds can not be observed
\* any more: it leaves the model
Norm(js, fut) == SelectSeq(js, LAMBDA job : ~(Finished(job) /\ job.id # fut))

\* position in jobs of the job with the given name (0: not there)
JobIdx(js, id) ==
  IF \E k \in DOMAIN js : js[k].id = id
    THEN CHOOSE k \in DOMAIN js : js[k].id = id
    ELSE 0

\* the job behind the Future the state holds
FutureJob == jobs[JobIdx(jobs, kb_update_future)]

----------------------------------------------------------------------------
(* agent.py main(): the supervisory loop *)

\* client.connect() failed: sleep 5 and try again
ConnectFail ==
  /\ pc = "connect"
  /\ pc' = "sleep"
  /\ UNCHANGED <<run, should_reconnect, should_exit, payload, server_output, tsk, kbv,
                 history,
                 jobs, njobs, disk, interrupted, focus, aux>>

\* a reconnect that keeps the handle of the previous run
kept_kb_update_future(fut) == fut

\* current_state["kb_update_future"] = None
reset_kb_update_future(fut) == 0

\* client.connect() succeeded: reset the connection-scoped fields, reload the
\* active phase's knowledge from disk and invoke the graph at its entry point
\* a reconnect that keeps the payload of the previous run
kept_payload(p) == p

\* the reconnect block empties the payload
reset_payload(p) == ""

Connect ==
  /\ pc = "connect"
  /\ run < MaxRuns
  /\ run' = run + 1
  /\ should_reconnect' = FALSE
  /\ should_exit' = FALSE
  /\ payload' = reset_payload(payload)
  /\ server_output' = ""
  /\ kb_update_future' = reset_kb_update_future(kb_update_future)
  /\ jobs' = Norm(jobs, reset_kb_update_future(kb_update_future))
  /\ knowledge_base' = load_kb(disk[phase])
  /\ pc' = "planner"
  /\ UNCHANGED <<tsk, kb_consolidation_counter, history, njobs, disk, interrupted, focus,
                 call>>
  /\ saved' = (IF focus = "faults" THEN CurrentState' ELSE saved)

\* time.sleep(5) before the next connect attempt
Sleep ==
  /\ pc = "sleep"
  /\ pc' = "connect"
  /\ UNCHANGED <<run, should_reconnect, should_exit, payload, server_output, tsk, kbv,
                 history,
                 jobs, njobs, disk, interrupted, focus, aux>>

----------------------------------------------------------------------------
(* planner.py *)

StuckActions == Vary("tasks", {"skip", "completed", "pending", "other"}, {"skip"})

\* a resolution without the fallback: an action it does not know changes nothing
handle_stuck_task_no_fallback(t, action) ==
  IF action = "skip" THEN [t EXCEPT !.status = "skipped", !.result = "summary"]
  ELSE IF action = "completed" THEN [t EXCEPT !.status = "completed", !.result = "summary"]
  ELSE IF action = "pending"
    THEN [t EXCEPT !.status = "pending", !.desc = "rewritten", !.result = "none"]
  ELSE t

\* a resolution whose retry puts the task in progress itself
handle_stuck_task_reassign(t, action) ==
  IF action = "skip" THEN [t EXCEPT !.status = "skipped", !.result = "summary"]
  ELSE IF action = "completed" THEN [t EXCEPT !.status = "completed", !.result = "summary"]
  ELSE IF action = "pending"
    THEN [t EXCEPT !.status = "in_progress", !.desc = "rewritten", !.result = "none"]
  ELSE [t EXCEPT !.status = "skipped", !.result = "summary"]

\* _handle_stuck_task followed by t.update(updates): "plan" is not among the
\* updated keys
handle_stuck_task(t, action) ==
  IF action = "skip" THEN [t EXCEPT !.status = "skipped", !.result = "summary"]
  ELSE IF action = "completed" THEN [t EXCEPT !.status = "completed", !.result = "summary"]
  ELSE IF action = "pending"
    THEN [t EXCEPT !.status = "pending", !.desc = "rewritten", !.result = "none"]
  ELSE [t EXCEPT !.status = "skipped", !.result = "summary"]

\* next_task["status"] = "in_progress"; next_task["plan"] = plan
Assign(t) == [t EXCEPT !.status = "in_progress", !.plan = "plan"]

\* step 1.5: a stuck task is resolved and nothing else is done
PlannerStuck(h, r) ==
  \E action \in StuckActions :
    LET ts == TasksOf(h, r)
        i  == FirstWithId(ts, current_task.id)
    IN  /\ heap' = (IF i = 0 THEN h ELSE SetTask(h, r, i, handle_stuck_task(ts[i], action)))
        /\ tasks_ref' = r
        /\ current_task' = EmptyTask
        /\ task_stuck' = FALSE
        /\ task_stuck_reason' = "none"
        /\ task_attempts' = 0
        /\ pc' = Goto(route_after_planner(should_exit), should_exit)
        /\ UNCHANGED <<phase, task_completed, environment_type, completed_phases,
                       should_exit, kbv, interrupted>>

\* step 2, non_text environment: request exit
PlannerExit(h, r) ==
  /\ heap' = h
  /\ tasks_ref' = r
  /\ current_task' = EmptyTask
  /\ should_exit' = TRUE
  /\ pc' = Goto(route_after_planner(TRUE), TRUE)
  /\ UNCHANGED <<phase, task_completed, task_stuck, task_stuck_reason, task_attempts,
                 environment_type, completed_phases, kbv, interrupted>>

\* step 2: freeze the phase summary, open the next phase with oracle-made tasks
PlannerAdvance(h, r) ==
  /\ phase < MaxPhase
  /\ \E ids \in TaskIdChoices :
       LET new == generate_phase_tasks(ids)
           lst == IF new = <<>> THEN new ELSE [new EXCEPT ![1] = Assign(new[1])]
           h2  == IF lst = <<>> THEN h ELSE Append(h, lst)
           r2  == IF lst = <<>> THEN 0 ELSE Len(h2)
       IN  /\ heap' = Collect(h2, r2, jobs)
           /\ tasks_ref' = r2
           /\ current_task' = (IF lst = <<>> THEN EmptyTask ELSE lst[1])
           /\ interrupted' = (IF lst = <<>> THEN interrupted ELSE Resumed(interrupted))
  /\ phase' = phase + 1
  /\ completed_phases' = Append(completed_phases, phase)
  /\ task_completed' = FALSE
  /\ knowledge_base' = <<>>
  /\ pc' = Goto(route_after_planner(should_exit), should_exit)
  /\ UNCHANGED <<task_stuck, task_stuck_reason, task_attempts, environment_type,
                 should_exit, kb_consolidation_counter, kb_update_future>>

\* step 3: pick the next task and plan it, or report that there is none
PlannerSelect(h, r) ==
  LET ts == TasksOf(h, r)
      i  == NextTask(ts)
  IN  /\ heap' = (IF i = 0 THEN h ELSE SetTask(h, r, i, Assign(ts[i])))
      /\ tasks_ref' = r
      /\ current_task' = (IF i = 0 THEN EmptyTask ELSE Assign(ts[i]))
      /\ interrupted' = (IF i = 0 THEN interrupted ELSE Resumed(interrupted))
      /\ task_completed' = FALSE
      /\ pc' = Goto(route_after_planner(should_exit), should_exit)
      /\ UNCHANGED <<phase, task_stuck, task_stuck_reason, task_attempts,
                     environment_type, completed_phases, should_exit, kbv>>

planner ==
  /\ pc = "planner"
  /\ \E ids \in (IF tasks_ref = 0 /\ phase > 1 THEN TaskIdChoices ELSE {<<>>}) :
       LET \* step 1: an empty task list is (re)built
           new == IF tasks_ref # 0 THEN <<>>
                  ELSE IF phase = 1 THEN PHASE1_TASKS
                  ELSE generate_phase_tasks(ids)
           h1  == IF new = <<>> THEN heap ELSE Append(heap, new)
           r1  == IF new = <<>> THEN tasks_ref ELSE Len(h1)
           ts  == TasksOf(h1, r1)
       IN  IF task_stuck THEN PlannerStuck(h1, r1)
           ELSE IF AllDone(ts) /\ ts # <<>>
             THEN (IF environment_type = "non_text"
                     THEN PlannerExit(h1, r1)
                     ELSE PlannerAdvance(h1, r1))
           ELSE PlannerSelect(h1, r1)
  /\ UNCHANGED <<run, should_reconnect, payload, server_output, history, jobs, njobs,
                 disk, focus, aux>>

----------------------------------------------------------------------------
(* nodes.py: the nodes run by the primary thread *)

\* what client.receive() returns when the connection is there: text, or ""
\* when no data came in time
ReadChoices == Vary("knowledge", {"", "text"}, {"text"})

\* what client.receive() returns: None when the connection is gone
ReceiveChoices == {"None"} \cup ReadChoices

\* if server_output is None
is_none(out) == out = "None"

\* observe: client.receive() gave None (connection gone), or data
observe ==
  /\ pc = "observe"
  /\ \E out \in ReceiveChoices :
      LET lost == is_none(out)
          data == out
      IN
       /\ should_reconnect' = lost
       /\ server_output' = (IF lost THEN "" ELSE data)
       /\ pc' = Goto(route_after_observe(lost), should_exit)
       /\ interrupted' = (IF lost THEN LostWith(tasks, tasks_ref) ELSE interrupted)
  /\ UNCHANGED <<run, should_exit, payload, tsk, kbv, history, jobs, njobs, disk, focus,
                 aux>>

\* the state snapshot handed to the executor: the scalars, a copy of the
\* knowledge list, and list(state["tasks"]), a new list of the same task dicts
\* (ref).  disp: the task statuses at dispatch; seen: those the job read
Snapshot ==
  [id      |-> njobs + 1,
   st      |-> "queued",
   phase   |-> phase,
   kb      |-> knowledge_base,
   counter |-> kb_consolidation_counter,
   hist    |-> history,
   ref     |-> tasks_ref,
   disp    |-> Statuses(tasks),
   seen    |-> <<>>,
   epoch   |-> run,
   joined  |-> "no",
   dups    |-> 0]

\* start_knowledge_update_bg: submit and return at once
start_knowledge_update_bg ==
  /\ pc = "start_kb_bg"
  /\ njobs < MaxJobs
  /\ jobs' = Append(jobs, Snapshot)
  /\ njobs' = njobs + 1
  /\ kb_update_future' = njobs + 1
  /\ pc' = "analyze"
  /\ UNCHANGED <<run, should_reconnect, should_exit, payload, server_output, tsk,
                 knowledge_base,
                 kb_consolidation_counter, history, disk, interrupted, focus, aux>>

\* the environment_type of the oracle's answer ("none": the key is absent)
EnvChoices ==
  IF focus \in {"tasks", "faults"} THEN {"none", "text", "non_text"} ELSE {"none"}

\* the payload of the oracle's answer: empty, or a command to send
PayloadChoices == Vary("tasks", {"", "cmd"}, {"cmd"})

\* whether the oracle's answer calls the task stuck, and gives a reason
StuckChoices == Vary("tasks", BOOLEAN, {FALSE})


\* analyze: stuck on the oracle's word only
task_is_stuck_llm_only(llm_stuck, attempts) == llm_stuck

\* analyze: the task counts as stuck on the oracle's word or at the ceiling
task_is_stuck(llm_stuck, attempts) == llm_stuck \/ attempts >= MAX_TASK_ATTEMPTS

\* stuck_reason = llm_stuck_reason or <ceiling text>
stuck_reason(has_reason) == IF has_reason THEN "oracle" ELSE "ceiling"

\* the attempts counter not reset
attempts_kept(n) == n

\* result["task_attempts"] = 0 when the task is completed or stuck
attempts_on_leave(n) == 0

\* analyze: one oracle decision
analyze ==
  /\ pc = "analyze"
  /\ \E done \in BOOLEAN, llm_stuck \in StuckChoices, has_reason \in StuckChoices,
        env \in EnvChoices, pl \in PayloadChoices :
       LET n  == task_attempts + 1
           i  == FirstWithId(tasks, current_task.id)
           sr == stuck_reason(has_reason)
       IN  /\ payload' = pl
           /\ environment_type' = (IF env = "none" THEN environment_type ELSE env)
           /\ IF done
                THEN /\ heap' = (IF i = 0 THEN heap ELSE
                                   SetTask(heap, tasks_ref, i,
                                     [tasks[i] EXCEPT !.status = "completed",
                                                      !.result = "summary"]))
                     /\ current_task' = [current_task EXCEPT !.status = "completed",
                                                             !.result = "summary"]
                     /\ task_completed' = TRUE
                     /\ task_stuck' = FALSE
                     /\ task_stuck_reason' = task_stuck_reason
                     /\ task_attempts' = attempts_on_leave(n)
                ELSE IF task_is_stuck(llm_stuck, n)
                THEN /\ heap' = (IF i = 0 THEN heap ELSE
                                   SetTask(heap, tasks_ref, i,
                                     [tasks[i] EXCEPT !.status = "stuck", !.result = sr]))
                     /\ current_task' = [current_task EXCEPT !.status = "stuck",
                                                             !.result = sr]
                     /\ task_completed' = FALSE
                     /\ task_stuck' = TRUE
                     /\ task_stuck_reason' = sr
                     /\ task_attempts' = attempts_on_leave(n)
                ELSE /\ task_completed' = FALSE
                     /\ task_stuck' = FALSE
                     /\ task_attempts' = n
                     /\ UNCHANGED <<heap, current_task, task_stuck_reason>>
  /\ pc' = "act"
  /\ interrupted' = <<interrupted[1], interrupted[2], FALSE>>
  /\ UNCHANGED <<run, should_reconnect, should_exit, server_output, phase, tasks_ref,
                 completed_phases, kbv, history, jobs, njobs, disk, focus, aux>>

\* act: send the payload if there is one; a failed send asks for a reconnect
act ==
  /\ pc = "act"
  /\ \E sent \in BOOLEAN :
       LET fail == payload # "" /\ ~sent
       IN  /\ history' = (IF payload # "" /\ sent THEN history + 1 ELSE history)
           /\ should_reconnect' = fail
           /\ pc' = Goto(route_after_act(fail), should_exit)
           /\ interrupted' = (IF fail THEN LostWith(tasks, tasks_ref) ELSE interrupted)
  /\ UNCHANGED <<run, should_exit, payload, server_output, tsk, kbv, jobs, njobs, disk,
                 focus, aux>>

\* how future.result(timeout=120) ends for a job in the given state: its
\* result, its exception, or (the job not having ended in time) a timeout
JoinOutcomes(st) ==
  IF st = "done" THEN {"ok"}
  ELSE IF st = "failed" THEN {"failed"}
  ELSE IF Cardinality({k \in DOMAIN jobs : jobs[k].joined = "timeout"}) < MaxAbandoned
    THEN {"timeout"}
  ELSE {}

\* a join that merges whatever the job holds, whether it has ended or not
joined_kb_always(outcome, job, kb) == job.kb

\* the knowledge the join puts into the state
joined_kb(outcome, job, kb) == IF outcome = "ok" THEN job.kb ELSE kb

\* a join that takes over the counter of the job whatever the outcome
joined_counter_always(outcome, job, c) == job.counter

\* the counter the join puts into the state
joined_counter(outcome, job, c) == IF outcome = "ok" THEN job.counter ELSE c

\* sync_knowledge_update: wait for the future, merge its result, drop the handle.
\* While the job is unfinished the node blocks (the worker's steps interleave);
\* the wait may also end by timeout.
sync_knowledge_update ==
  /\ pc = "sync_kb"
  /\ IF kb_update_future = 0
       THEN UNCHANGED <<jobs, knowledge_base, kb_consolidation_counter>>
            /\ UNCHANGED disk
       ELSE \E outcome \in JoinOutcomes(FutureJob.st) :
              LET id == kb_update_future
                  to == IF outcome = "ok" THEN 0
                        ELSE IF outcome = "timeout" THEN Abandoned ELSE id
                  js == [jobs EXCEPT ![JobIdx(jobs, id)].joined = outcome]
              IN  /\ knowledge_base' =
                       Retag(joined_kb(outcome, FutureJob, knowledge_base), id, to)
                  /\ kb_consolidation_counter' =
                       joined_counter(outcome, FutureJob, kb_consolidation_counter)
                  /\ jobs' = RetagJobs(Norm(js, 0), id, to)
                  /\ disk' = RetagDisk(disk, id, to)
  /\ kb_update_future' = 0
  /\ pc' = route_after_sync_kb(task_completed, task_stuck)
  /\ UNCHANGED <<run, should_reconnect, should_exit, payload, server_output, tsk, history,
                 njobs,
                 interrupted, focus, aux>>

----------------------------------------------------------------------------
(* nodes.py: manage_knowledge, run by the single thread of _kb_executor *)

\* a pool with a thread for every job
MayStartAtOnce(j) == jobs[j].st = "queued"

\* max_workers=1: a job starts when every job submitted before it has ended
MayStart(j) == jobs[j].st = "queued" /\ \A k \in 1..(j - 1) : Finished(jobs[k])

\* the mark of the entries a job produces
SrcOf(job) == IF job.joined = "timeout" THEN Abandoned ELSE job.id

\* the candidate batches the oracle may return: nothing, one entry, or the
\* same entry twice
NewEntryChoices ==
  Vary("knowledge",
       {<<>>} \cup {<<c>> : c \in 1..MaxContent} \cup {<<c, c>> : c \in 1..MaxContent},
       {<<>>})

\* a loop that appends every candidate
add_entries_no_dedup(kb, cands, j) ==
  kb \o [k \in 1..Len(cands) |-> Entry(cands[k], "input_triggered", j)]

\* the dedup loop: a candidate is appended unless its content is already there
\* (in the snapshot, or appended earlier in the same batch)
RECURSIVE add_entries(_, _, _)
add_entries(kb, cands, j) ==
  IF cands = <<>> THEN kb
  ELSE LET c   == Head(cands)
           dup == \E k \in DOMAIN kb : kb[k].kind = "dict" /\ kb[k].content = c
       IN  add_entries(IF dup THEN kb ELSE Append(kb, Entry(c, "input_triggered", j)),
                       Tail(cands), j)

\* the rewrites the oracle may return to _consolidate_knowledge: nothing usable,
\* or one merged entry
RewriteChoices == Vary("knowledge", {<<>>} \cup {<<c>> : c \in 1..MaxContent}, {<<>>})

\* a consolidation that takes whatever the oracle returned
consolidate_knowledge_always(kb, rewrite, j) ==
  [i \in DOMAIN rewrite |-> Entry(rewrite[i], "input_triggered", j)]

\* _consolidate_knowledge: the rewrite replaces the list only if it is non-empty
consolidate_knowledge(kb, rewrite, j) ==
  IF kb = <<>> THEN kb
  ELSE IF rewrite = <<>> THEN kb
  ELSE [i \in DOMAIN rewrite |-> Entry(rewrite[i], "input_triggered", j)]

\* the job is taken by the worker thread: early return on an empty snapshot,
\* else the task dicts are read (tasks_str) and the oracle is asked
WorkerStart(j) ==
  /\ MayStart(j)
  /\ LET js == [jobs EXCEPT ![j] =
                 IF jobs[j].hist = 0 /\ jobs[j].ref = 0
                   THEN [@ EXCEPT !.st = "done"]
                   ELSE [@ EXCEPT !.st = "running",
                                  !.seen = Statuses(TasksOf(heap, jobs[j].ref))]]
     IN  /\ jobs' = Norm(js, kb_update_future)
         /\ heap' = Collect(heap, tasks_ref, js)
  /\ UNCHANGED <<ctl, phase, tasks_ref, current_task, task_attempts, task_completed,
                 task_stuck, task_stuck_reason, environment_type, completed_phases,
                 kbv, history, njobs, disk, interrupted, focus, aux>>

\* the oracle answered: dedup-append, count, persist if anything was added
WorkerAdd(j) ==
  /\ jobs[j].st = "running"
  /\ \E cands \in NewEntryChoices :
       LET kb2   == add_entries(jobs[j].kb, cands, SrcOf(jobs[j]))
           added == Len(kb2) - Len(jobs[j].kb)
           c2    == jobs[j].counter + 1
           js    == [jobs EXCEPT ![j] =
                      [@ EXCEPT !.kb = kb2, !.counter = c2, !.hist = 0, !.ref = 0,
                                !.disp = <<>>, !.seen = <<>>,
                                !.dups = Len(cands) - added,
                                !.st = IF c2 >= KB_CONSOLIDATION_INTERVAL
                                         THEN "consolidating" ELSE "done"]]
       IN  /\ jobs' = Norm(js, kb_update_future)
           /\ disk' = (IF added > 0
                         THEN [disk EXCEPT ![jobs[j].phase] = save_kb(kb2)]
                         ELSE disk)
  /\ UNCHANGED <<ctl, tsk, kbv, history, njobs, interrupted, focus, aux>>

\* periodic consolidation: rewrite, persist, reset the counter
WorkerConsolidate(j) ==
  /\ jobs[j].st = "consolidating"
  /\ \E rewrite \in RewriteChoices :
       LET kb2 == consolidate_knowledge(jobs[j].kb, rewrite, SrcOf(jobs[j]))
           js  == [jobs EXCEPT ![j] = [@ EXCEPT !.kb = kb2, !.counter = 0, !.st = "done"]]
       IN  /\ jobs' = Norm(js, kb_update_future)
           /\ disk' = [disk EXCEPT ![jobs[j].phase] = save_kb(kb2)]
  /\ UNCHANGED <<ctl, tsk, kbv, history, njobs, interrupted, focus, aux>>

\* manage_knowledge raised (it is re-raised by future.result at the join)
WorkerFail(j) ==
  /\ jobs[j].st \in {"running", "consolidating"}
  /\ jobs' = Norm([jobs EXCEPT ![j] = [@ EXCEPT !.st = "failed", !.kb = <<>>,
                                               !.counter = 0, !.hist = 0, !.ref = 0,
                                               !.disp = <<>>, !.seen = <<>>,
                                               !.dups = 0]],
                  kb_update_future)
  /\ UNCHANGED <<ctl, tsk, kbv, history, njobs, disk, interrupted, focus, aux>>

----------------------------------------------------------------------------
Next ==
  \/ ConnectFail
  \/ Connect
  \/ Sleep
  \/ planner
  \/ observe
  \/ start_knowledge_update_bg
  \/ analyze
  \/ act
  \/ sync_knowledge_update
  \/ \E j \in DOMAIN jobs : WorkerStart(j)
  \/ \E j \in DOMAIN jobs : WorkerAdd(j)
  \/ \E j \in DOMAIN jobs : WorkerConsolidate(j)
  \/ \E j \in DOMAIN jobs : WorkerFail(j)

Spec == Init /\ [][Next]_vars

\* the same program started over an existing knowledge file
SpecStore == InitStore /\ [][Next]_vars

----------------------------------------------------------------------------
(* Exceptions that escape compiled_graph.invoke *)

GraphNodes == {"planner", "observe", "start_kb_bg", "analyze", "act", "sync_kb"}

\* A node raises, or the graph's step limit is reached (invoke is called
\* without a recursion_limit): main's except branch sleeps and the loop goes
\* on with the current_state it had before the run, as "current_state =
\* dict(final_state)" was not reached.  The task dicts changed in place, the
\* jobs and the files stay as they are.
GraphException ==
  /\ pc \in GraphNodes
  /\ pc' = "sleep"
  /\ phase' = saved.phase
  /\ tasks_ref' = saved.tasks_ref
  /\ current_task' = saved.current_task
  /\ task_attempts' = saved.task_attempts
  /\ task_completed' = saved.task_completed
  /\ task_stuck' = saved.task_stuck
  /\ task_stuck_reason' = saved.task_stuck_reason
  /\ environment_type' = saved.environment_type
  /\ completed_phases' = saved.completed_phases
  /\ knowledge_base' = saved.knowledge_base
  /\ kb_consolidation_counter' = saved.kb_consolidation_counter
  /\ history' = saved.history
  /\ should_reconnect' = FALSE
  /\ should_exit' = FALSE
  /\ payload' = ""
  /\ server_output' = ""
  /\ kb_update_future' = 0
  /\ jobs' = Norm(jobs, 0)
  /\ UNCHANGED <<run, heap, njobs, disk, interrupted, focus, aux>>

\* a start where exceptions are looked at; of the oracles' answers only the
\* environment_type varies
InitFaults == StartWith(<<>>) /\ focus = "faults" /\ call = NoCall

NextFaults == Next \/ GraphException

SpecFaults == InitFaults /\ [][NextFaults]_vars

----------------------------------------------------------------------------
(* The second phase looked at on its own: the behaviours that begin where the
   planner has just opened phase 2, in the first run, with every job of phase
   1 joined and forgotten (the job names start again at 1) *)

\* the state the planner leaves when it opens phase 2 with the oracle's task
\* list `ids` and assigns the first task of it
Phase2Entry(ids) ==
  LET lst == [generate_phase_tasks(ids) EXCEPT ![1] = Assign(@)] IN
  /\ pc = "observe" /\ run = 1
  /\ phase = 2 /\ completed_phases = <<1>>
  /\ heap = << <<>>, lst >> /\ tasks_ref = 2
  /\ current_task = lst[1]
  /\ task_attempts = 0
  /\ task_completed = FALSE /\ task_stuck = FALSE /\ task_stuck_reason = "none"
  /\ should_reconnect = FALSE /\ should_exit = FALSE
  /\ environment_type = "text"
  /\ payload = "" /\ server_output = "text"
  /\ history = 0
  /\ disk = [p \in 1..MaxPhase |-> <<>>]
  /\ knowledge_base = <<>> /\ kb_consolidation_counter = 0
  /\ kb_update_future = 0 /\ jobs = <<>>
  /\ interrupted = <<0, 0, FALSE>>
  /\ focus = "tasks" /\ call = NoCall
  /\ saved = [phase |-> 1, tasks_ref |-> 0, current_task |-> EmptyTask,
              task_attempts |-> 0, task_completed |-> FALSE, task_stuck |-> FALSE,
              task_stuck_reason |-> "none", environment_type |-> "unknown",
              history |-> 0, completed_phases |-> <<>>, knowledge_base |-> <<>>,
              kb_consolidation_counter |-> 0]

InitPhase2 == (\E ids \in {<<1, 2>>, <<1, 1>>} : Phase2Entry(ids)) /\ njobs = 0

SpecPhase2 == InitPhase2 /\ [][Next]_vars

----------------------------------------------------------------------------
(* llm_client.py: LLMClient.call_with_retry, one call looked at on its own *)

\* the default of the retry_delay parameter (no caller passes another value)
\* and the ceiling of the backoff, in seconds
RETRY_DELAY == 2

MAX_RETRY_DELAY == 60

\* a backoff without the ceiling
backoff_uncapped(d) == d * 2

\* retry_delay = min(retry_delay * 2, 60.0)
backoff(d) == IF d * 2 < MAX_RETRY_DELAY THEN d * 2 ELSE MAX_RETRY_DELAY

\* a loop that returns whatever query returned
accepted_unchecked(validator, result) == TRUE

\* the result is returned if there is no validator or the validator passes it
\* ("ok": a result the validator passes, "bad": one it rejects)
accepted(validator, result) == (~validator) \/ result = "ok"

\* what one query does: it raises (transport error, or the answer is not
\* JSON), or it returns a parsed result
QueryOutcomes == {"raise", "bad", "ok"}

InitRetry ==
  /\ StartWith(<<>>) /\ focus = "tasks"
  /\ \E v \in BOOLEAN :
       call = [st |-> "query", validator |-> v, retry_delay |-> RETRY_DELAY,
               result |-> "none", queries |-> 0, slept |-> <<>>, fails |-> <<>>]

\* one pass of the while loop up to the return or to the sleep
CallQuery ==
  /\ call.st = "query"
  /\ call.queries < MaxQueries
  /\ \E out \in QueryOutcomes :
       call' = IF out = "raise"
                 THEN [call EXCEPT !.st = "sleep", !.queries = @ + 1,
                                   !.fails = Append(@, "exception")]
               ELSE IF accepted(call.validator, out)
                 THEN [call EXCEPT !.st = "returned", !.queries = @ + 1,
                                   !.result = out]
               ELSE [call EXCEPT !.st = "sleep", !.queries = @ + 1,
                                 !.fails = Append(@, "rejected")]
  /\ UNCHANGED <<ctl, tsk, kbv, history, jobs, njobs, disk, interrupted, focus, saved>>

\* time.sleep(retry_delay), then the delay is doubled up to the ceiling
CallBackoff ==
  /\ call.st = "sleep"
  /\ call' = [call EXCEPT !.st = "query", !.slept = Append(@, call.retry_delay),
                          !.retry_delay = backoff(@)]
  /\ UNCHANGED <<ctl, tsk, kbv, history, jobs, njobs, disk, interrupted, focus, saved>>

NextRetry == CallQuery \/ CallBackoff

SpecRetry == InitRetry /\ [][NextRetry]_vars

----------------------------------------------------------------------------
(* The loop over a connection that stays: connect succeeds, no read reports
   a loss, no send fails, the worker raises nothing, the decision oracle
   never reports task_completed and the stuck resolution never answers
   "completed" or "pending".  The threads are scheduled fairly. *)

\* the names of jobs that are gone are free again (the names are the model's;
\* the executor's queue is unbounded)
FreeJobNames ==
  /\ njobs > 0 /\ jobs = <<>> /\ kb_update_future = 0
  /\ \A i \in DOMAIN knowledge_base : knowledge_base[i].src <= 0
  /\ \A p \in DOMAIN disk : \A i \in DOMAIN disk[p] : disk[p][i].src <= 0
  /\ njobs' = 0
  /\ UNCHANGED <<ctl, tsk, kbv, history, jobs, disk, interrupted, focus, aux>>

\* the steps of the primary thread under these conditions; the history
\* count stays within the range it has in Spec
PrimaryLive ==
  \/ Connect
  \/ planner /\ \A i \in DOMAIN tasks' :
                  tasks'[i].status # "completed" /\ tasks'[i].desc # "rewritten"
  \/ observe /\ ~should_reconnect'
  \/ start_knowledge_update_bg
  \/ analyze /\ ~task_completed' /\ (payload' # "" => history < MaxJobs)
  \/ act /\ ~should_reconnect'
  \/ sync_knowledge_update
  \/ FreeJobNames

\* the steps of the worker thread
WorkerLive ==
  \/ \E j \in DOMAIN jobs : WorkerStart(j)
  \/ \E j \in DOMAIN jobs : WorkerAdd(j)
  \/ \E j \in DOMAIN jobs : WorkerConsolidate(j)

NextLive == PrimaryLive \/ WorkerLive

\* each of the two threads goes on whenever it can
SpecLive ==
  Init /\ [][NextLive]_vars /\ WF_vars(PrimaryLive) /\ WF_vars(WorkerLive)

----------------------------------------------------------------------------
(* The claims of the specification, C1 .. C10 *)

InProgress(ts) == {i \in DOMAIN ts : ts[i].status = "in_progress"}

\* the steps of the primary thread's nodes
AnalyzeStep == pc = "analyze" /\ pc' = "act"
PlannerStep == pc = "planner" /\ pc' # "planner"
JoinStep    == pc = "sync_kb" /\ pc' # "sync_kb"

\* C1: in every reachable state at most one task of the active phase's task
\* list has status in_progress.
C1_OneInProgress == Cardinality(InProgress(tasks)) <= 1

\* C1 witness: in the second phase, after a reconnect, one task is in_progress
\* (planner, analyze, rollover and reconnect steps have all been taken)
C1_Witness ==
  /\ phase = 2 /\ run = 2 /\ pc = "observe"
  /\ Cardinality(InProgress(tasks)) = 1
  /\ Len(tasks) = 2

\* C2, as the specification states it: a job dispatched in cycle N is joined
\* before the dispatch of cycle N+1 is issued, so that only the job dispatched
\* last can be one the join step has not returned for.
C2_JoinedBeforeNextDispatch ==
  \A k \in DOMAIN jobs : jobs[k].joined = "no" => jobs[k].id = njobs

\* C3: when the connection was lost while a task was in_progress, the first
\* task the planner assigns as current after the reconnect is that task, with
\* status in_progress.
C3_ResumesInterrupted ==
  [][(PlannerStep /\ interrupted[1] # 0 /\ current_task'.id # 0) =>
       /\ tasks_ref' = interrupted[1]
       /\ current_task' = heap'[interrupted[1]][interrupted[2]]
       /\ current_task'.id = heap[interrupted[1]][interrupted[2]].id
       /\ current_task'.status = "in_progress"
       /\ InProgress(TasksOf(heap', tasks_ref')) = {interrupted[2]}]_vars

\* C3 witness: after a reconnect the planner has resumed the interrupted task,
\* while another task is still pending
C3_Witness ==
  /\ interrupted[3] /\ run = 2 /\ pc = "observe"
  /\ current_task.status = "in_progress"
  /\ \E i \in DOMAIN tasks : tasks[i].status = "pending"

\* C4: whenever a task goes from in_progress to completed or stuck, be it the
\* task dict of a list or the current-task copy, the attempts counter is 0 in
\* the state the step produces.
C4_AttemptsResetOnLeave ==
  [][((\E r \in DOMAIN heap : \E i \in DOMAIN heap[r] :
          /\ heap[r][i].status = "in_progress"
          /\ r \in DOMAIN heap' /\ i \in DOMAIN heap'[r]
          /\ heap'[r][i].status \in {"completed", "stuck"})
      \/ (/\ current_task.status = "in_progress"
          /\ current_task'.status \in {"completed", "stuck"}))
     => task_attempts' = 0]_vars

\* C4 witness: the first task was analysed twice and completed by the second
\* analysis; the counter, 1 after the first, is 0
C4_Witness ==
  /\ pc = "act" /\ run = 1 /\ phase = 1 /\ njobs = 2
  /\ current_task.id = 1 /\ current_task.status = "completed"
  /\ tasks[1].status = "completed" /\ tasks[2].status = "pending"
  /\ task_attempts = 0

\* C5, as the specification states it: when the counter reaches the ceiling
\* in an analyze step, the task becomes stuck with the ceiling-exceeded reason,
\* whatever the oracle answers.
C5_AlwaysStuckAtCeiling ==
  [][(AnalyzeStep /\ task_attempts + 1 >= MAX_TASK_ATTEMPTS) =>
       /\ current_task'.status = "stuck"
       /\ task_stuck'
       /\ task_stuck_reason' = "ceiling"]_vars

\* C5, amended: when the counter reaches the ceiling in an analyze step, the
\* counter is reset and the task leaves in_progress in that step: it is
\* completed if the oracle reports it completed, and stuck otherwise, whatever
\* the oracle's stuck flag; the stuck flag and reason are set, the reason (the
\* oracle's text if it gave one, else the ceiling text) is the task's result,
\* and the first task of the list with the current id is stuck too.
C5_CeilingEndsTask ==
  [][(AnalyzeStep /\ task_attempts + 1 >= MAX_TASK_ATTEMPTS) =>
       /\ task_attempts' = 0
       /\ IF task_completed'
            THEN current_task'.status = "completed" /\ ~task_stuck'
            ELSE /\ task_stuck'
                 /\ current_task'.status = "stuck"
                 /\ task_stuck_reason' \in {"oracle", "ceiling"}
                 /\ current_task'.result = task_stuck_reason'
                 /\ LET ts == TasksOf(heap', tasks_ref')
                        i  == FirstWithId(ts, current_task.id)
                    IN  i # 0 => ts[i].status = "stuck" /\ ts[i].result = task_stuck_reason'
     ]_vars

\* C5 witness: the ceiling was reached without the oracle's help: the task is
\* stuck with the ceiling text as reason
C5_Witness ==
  /\ pc = "act" /\ task_stuck /\ task_stuck_reason = "ceiling"
  /\ current_task.id # 0 /\ current_task.status = "stuck"
  /\ task_attempts = 0

\* C6: the handle the state holds, and so the one the join step joins, is the
\* job dispatched last, in this run of the graph, and not joined before; the
\* join step always finds a handle.
C6_JoinsOwnJob ==
  /\ pc = "sync_kb" => kb_update_future # 0
  /\ kb_update_future # 0 =>
       /\ JobIdx(jobs, kb_update_future) # 0
       /\ kb_update_future = njobs
       /\ FutureJob.epoch = run
       /\ FutureJob.joined = "no"

\* C6 witness: the join step is about to join this run's job while an
\* unjoined job of the run before the reconnect is still there
C6_Witness ==
  /\ pc = "sync_kb" /\ run = 2 /\ kb_update_future # 0
  /\ JobIdx(jobs, kb_update_future) # 0 /\ FutureJob.epoch = 2
  /\ \E k \in DOMAIN jobs : jobs[k].epoch = 1 /\ jobs[k].joined = "no"

\* the jobs dispatched before the last reconnect that were never joined
Leaked == {k \in DOMAIN jobs : jobs[k].epoch < run /\ jobs[k].joined = "no"}

\* what the knowledge files hold
Contents(d) == [p \in DOMAIN d |-> [i \in DOMAIN d[p] |-> d[p][i].content]]

\* C7, as the specification states it: a job dispatched but not joined when
\* the graph exited has no effect after the reconnect: as long as such a job
\* is there (it runs before every later job), the knowledge files are not
\* written.
C7_NoLeakAcrossReconnect ==
  [][Leaked # {} => Contents(disk') = Contents(disk)]_vars

\* C8, as the specification states it: no entry produced by a job that was
\* given up at the join timeout is ever part of the in-memory knowledge base.
C8_AbandonedDiscarded ==
  \A i \in DOMAIN knowledge_base : knowledge_base[i].src # Abandoned

\* C9: a join whose job failed or did not end in time changes neither the
\* knowledge base nor the consolidation counter, clears the handle and goes on
\* to the planner or to observe.
C9_FailedJoinNoOp ==
  [][(JoinStep /\ kb_update_future # 0 /\ FutureJob.st # "done") =>
       /\ knowledge_base' = knowledge_base
       /\ kb_consolidation_counter' = kb_consolidation_counter
       /\ kb_update_future' = 0
       /\ pc' \in {"planner", "observe"}]_vars

\* C9 witness: a join has timed out (its job is still unfinished), the handle
\* is cleared and the scheduler went on with a knowledge base that is not empty
C9_Witness ==
  /\ pc \in {"planner", "observe"} /\ kb_update_future = 0
  /\ knowledge_base # <<>>
  /\ \E k \in DOMAIN jobs : jobs[k].joined = "timeout" /\ jobs[k].epoch = run

\* C10, as the specification states it: the snapshot is an independent copy,
\* so that what a running job has read of the tasks is what they were at
\* dispatch.
C10_SnapshotIsolated ==
  \A k \in DOMAIN jobs : jobs[k].st = "running" => jobs[k].seen = jobs[k].disp

----------------------------------------------------------------------------
(* The claims of the specification, C11 .. C20 *)

\* how many entries of a knowledge list carry the content c
Count(kb, c) == Cardinality({i \in DOMAIN kb : kb[i].content = c})

\* every knowledge list there is: in memory, in a job's hands, in a file
KnowledgeLists ==
  {knowledge_base} \cup {jobs[k].kb : k \in DOMAIN jobs} \cup {disk[p] : p \in DOMAIN disk}

IsPrefix(a, b) == Len(a) <= Len(b) /\ \A i \in DOMAIN a : a[i] = b[i]

\* C12, as the specification states it: apart from a consolidation rewrite
\* (no job is consolidating when the step is taken), every version of a
\* phase's knowledge file extends the version before it, so that no accepted
\* entry is lost.
C12_AppendOnly ==
  [][(\A k \in DOMAIN jobs : jobs[k].st # "consolidating") =>
       \A p \in DOMAIN disk : IsPrefix(Contents(disk)[p], Contents(disk')[p])]_vars

\* the job with this id after the step (it is still there while the state
\* holds its Future)
JobAfter(id) == jobs'[JobIdx(jobs', id)]

\* C13: a worker run whose counter reaches KB_CONSOLIDATION_INTERVAL goes on
\* to the consolidation in the same run; a job never ends with a counter at
\* the interval; the consolidation returns counter 0, persists its list, and
\* its list is the prior one unless a non-empty rewrite replaced it.
C13_ConsolidatesAtInterval ==
  [][/\ \A k \in DOMAIN jobs' :
          /\ jobs'[k].st = "done" => jobs'[k].counter < KB_CONSOLIDATION_INTERVAL
          /\ jobs'[k].st = "consolidating" =>
                jobs'[k].counter >= KB_CONSOLIDATION_INTERVAL
     /\ \A k \in DOMAIN jobs :
          LET id == jobs[k].id IN
          JobIdx(jobs', id) # 0 =>
            /\ (/\ jobs[k].st = "running"
                /\ jobs[k].counter + 1 >= KB_CONSOLIDATION_INTERVAL
                /\ JobAfter(id).st # "running")
                  => JobAfter(id).st \in {"consolidating", "failed"}
            /\ (jobs[k].st = "consolidating" /\ JobAfter(id).st = "done") =>
                  /\ JobAfter(id).counter = 0
                  /\ disk'[jobs[k].phase] = JobAfter(id).kb
                  /\ \/ JobAfter(id).kb = jobs[k].kb
                     \/ jobs[k].kb # <<>> /\ JobAfter(id).kb # <<>>]_vars

\* C13 witness: the job the state waits for has consolidated: it returns
\* counter 0 after the interval was reached, and every entry of its list,
\* which is also the file, is a rewritten one, while its snapshot was not empty
C13_Witness ==
  /\ kb_update_future # 0 /\ FutureJob.st = "done" /\ FutureJob.counter = 0
  /\ kb_consolidation_counter + 1 = KB_CONSOLIDATION_INTERVAL
  /\ knowledge_base # <<>> /\ FutureJob.kb # <<>>
  /\ \A i \in DOMAIN FutureJob.kb : FutureJob.kb[i].src = FutureJob.id
  /\ disk[phase] = FutureJob.kb

\* a file of entry dicts only; a file of items load_kb takes (strings, dicts)
AllDicts(file) == \A i \in DOMAIN file : file[i].kind = "dict"

Accepted(file) == \A i \in DOMAIN file : file[i].kind \in {"str", "dict"}

\* a worker run that accepted no candidate and did not consolidate
ZeroRun ==
  \E k \in DOMAIN jobs :
    /\ jobs[k].st = "running"
    /\ JobIdx(jobs', jobs[k].id) # 0
    /\ JobAfter(jobs[k].id).st = "done"
    /\ JobAfter(jobs[k].id).kb = jobs[k].kb

\* C14, as the specification states it: loading a store, adding nothing and
\* saving gives the store back as it was, for every store load_kb accepts,
\* legacy plain strings included; and a worker run that accepts nothing and
\* does not consolidate leaves the store alone.
C14_RoundTripIdentical ==
  [][/\ \A p \in DOMAIN disk :
          Accepted(disk[p]) => save_kb(load_kb(disk[p])) = disk[p]
     /\ ZeroRun => disk' = disk]_vars

\* C14, amended: the round trip gives back a store of entry dicts as it was;
\* of a store with legacy strings it keeps length, order and contents, every
\* dict as it was, and every string as a dict of category "unknown"; a worker
\* run that accepts nothing and does not consolidate leaves the store alone.
C14_RoundTripUpgrades ==
  [][/\ \A p \in DOMAIN disk :
          LET back == save_kb(load_kb(disk[p])) IN
          /\ AllDicts(disk[p]) => back = disk[p]
          /\ Accepted(disk[p]) =>
                /\ Len(back) = Len(disk[p])
                /\ \A i \in DOMAIN back :
                     /\ back[i].kind = "dict"
                     /\ back[i].content = disk[p][i].content
                     /\ disk[p][i].kind = "dict" => back[i] = disk[p][i]
                     /\ disk[p][i].kind = "str" => back[i].category = "unknown"
     /\ ZeroRun => disk' = disk]_vars

\* C14 witness: a store of one legacy string and one dict was loaded; the job
\* the state waits for accepted nothing, consolidated without a rewrite and
\* saved: the file now holds the string as a dict of category "unknown" and
\* the dict as it was
C14_Witness ==
  /\ kb_update_future # 0 /\ FutureJob.st = "done" /\ FutureJob.counter = 0
  /\ kb_consolidation_counter + 1 = KB_CONSOLIDATION_INTERVAL
  /\ FutureJob.kb = knowledge_base /\ disk[phase] = knowledge_base
  /\ knowledge_base = <<Entry(1, "unknown", 0), Entry(2, "input_triggered", 0)>>

\* the planner is entered with a task list that is all completed or skipped,
\* in an environment found to be non_text
ExitCase == tasks # <<>> /\ AllDone(tasks) /\ environment_type = "non_text"

\* the planner's exit: flag set, the loop left, phase and tasks as they were
ExitEffect ==
  /\ should_exit' /\ pc' = "exited"
  /\ phase' = phase /\ completed_phases' = completed_phases
  /\ tasks_ref' = tasks_ref /\ heap' = heap

LostStep == pc = "observe" /\ ~should_reconnect /\ should_reconnect'

\* nothing of the task and phase state, the history or the jobs is touched by
\* the primary thread: no dispatch, no decision, no send, no join
Untouched ==
  /\ phase' = phase /\ tasks' = tasks /\ current_task' = current_task
  /\ task_attempts' = task_attempts /\ history' = history
  /\ completed_phases' = completed_phases
  /\ njobs' = njobs /\ kb_update_future' = kb_update_future
  /\ knowledge_base' = knowledge_base /\ payload' = payload

\* C16: when the read reports the connection lost, the graph ends in that
\* step and the loop goes to its delay, with phase, tasks, current task,
\* attempts, history and completed phases as they were, and without dispatch,
\* decision, send or join; the delay leaves them alone too; and a connect
\* attempt is reached only from the delay.
C16_LostEndsCycle ==
  [][/\ LostStep => (pc' = "sleep" /\ Untouched)
     /\ pc = "sleep" => (pc' \in {"sleep", "connect"} /\ Untouched)
     /\ (pc' = "connect" /\ pc # "connect") => pc = "sleep"]_vars

\* C16 witness: after one full cycle the second read reported the loss: the
\* loop is in its delay, the one job was joined and no second one dispatched,
\* the current task is still in progress after its one attempt
C16_Witness ==
  /\ pc = "sleep" /\ should_reconnect /\ kb_update_future = 0
  /\ njobs = 1 /\ history = 1 /\ task_attempts = 1
  /\ current_task.status = "in_progress"

\* the reconnect block of the loop has run: the graph is about to be invoked
ReconnectStep == pc = "connect" /\ pc' = "planner"

\* the connection-scoped fields are reset
ConnectionReset ==
  /\ server_output' = "" /\ payload' = "" /\ kb_update_future' = 0
  /\ ~should_reconnect' /\ ~should_exit'

\* the task and phase state, the history and the counter are kept
ProgressKept ==
  /\ phase' = phase /\ tasks' = tasks /\ current_task' = current_task
  /\ task_attempts' = task_attempts /\ task_stuck_reason' = task_stuck_reason
  /\ environment_type' = environment_type /\ completed_phases' = completed_phases
  /\ history' = history /\ kb_consolidation_counter' = kb_consolidation_counter

C18_ObserveHasCurrentTask ==
  [][(PlannerStep /\ pc' = "observe") =>
       /\ current_task' # EmptyTask
       /\ current_task'.status = "in_progress"
       /\ current_task'.plan = "plan"
       /\ \E i \in DOMAIN tasks' :
            tasks'[i].id = current_task'.id /\ tasks'[i].status = "in_progress"]_vars

\* the planner is entered with the task-stuck flag set
StuckStep == PlannerStep /\ task_stuck

\* C19: after the planner has handled a stuck task, the task the current
\* pointer named is skipped, completed or pending, no task of the list is
\* stuck, the flag is off, the attempts are 0 and the pointer is empty.
C19_StuckResolved ==
  [][StuckStep =>
       /\ ~task_stuck' /\ task_attempts' = 0 /\ current_task' = EmptyTask
       /\ \A i \in DOMAIN tasks' : tasks'[i].status # "stuck"
       /\ LET i == FirstWithId(tasks, current_task.id) IN
            i # 0 => tasks'[i].status \in {"skipped", "completed", "pending"}]_vars

\* C19 witness: a stuck task was sent back for a retry: it is pending with a
\* rewritten description, the flag is off, the attempts are 0, the pointer is
\* empty and the scheduler goes on with observe
C19_Witness ==
  /\ pc = "observe" /\ ~task_stuck /\ task_attempts = 0 /\ current_task = EmptyTask
  /\ \E i \in DOMAIN tasks : tasks[i].status = "pending" /\ tasks[i].desc = "rewritten"
  /\ \A i \in DOMAIN tasks : tasks[i].status # "stuck"

\* C20, as the specification states it: a stuck task that the resolution
\* sends back for a retry is afterwards pending, with the rewritten
\* description, without a result and without a plan.
C20_RetryClearsPlan ==
  [][StuckStep =>
       LET i == FirstWithId(tasks, current_task.id) IN
       (i # 0 /\ tasks'[i].status = "pending") =>
          /\ tasks'[i].desc = "rewritten"
          /\ tasks'[i].result = "none"
          /\ tasks'[i].plan = "none"]_vars

----------------------------------------------------------------------------
(* The claims of the specification, C21 .. C30 *)

\* C21, as the specification states it: over a connection that stays, with
\* fair scheduling, an oracle that never reports task_completed and a stuck
\* resolution that always skips, every task of the active phase is eventually
\* skipped.
C21_AllEventuallySkipped ==
  <>(tasks # <<>> /\ \A i \in DOMAIN tasks : tasks[i].status = "skipped")

ExceptionStep == pc \in GraphNodes /\ pc' = "sleep" /\ ~should_reconnect'

C23_PhasesIncrease ==
  [][/\ phase' >= phase
     /\ phase' # phase => phase' = phase + 1
     /\ IsPrefix(completed_phases, completed_phases')
     /\ Len(completed_phases') = phase' - 1
     /\ \A i \in DOMAIN completed_phases' : completed_phases'[i] = i]_vars

\* C24: call_with_retry with a validator returns only a result the validator
\* passes; it returns at the first query that neither raised nor was
\* rejected; every failure, of either kind, leads to another query; and
\* after the return nothing more is done.
C24_ReturnsOnlyAccepted ==
  [][/\ (call'.st = "returned" /\ call'.validator) => call'.result = "ok"
     /\ call'.st = "returned" => call'.queries = Len(call'.fails) + 1
     /\ (call.st = "query" /\ call'.st # "returned") => call'.st = "sleep"
     /\ call.st = "sleep" => call'.st = "query"
     /\ call.st = "returned" => call' = call]_vars

\* C24 witness: a call with a validator has returned an accepted result after
\* a query that raised and one that was rejected
C24_Witness ==
  /\ call.st = "returned" /\ call.validator /\ call.result = "ok"
  /\ \E i, k \in DOMAIN call.fails :
       call.fails[i] = "exception" /\ call.fails[k] = "rejected"

\* C25: the delays slept start at the default delay, each is the double of
\* the one before up to the ceiling, whichever kind the failure was, none
\* exceeds the ceiling, they never decrease, and every failure is followed by
\* one delay.
C25_BackoffDoublesToCeiling ==
  LET d == call.slept IN
  /\ d # <<>> => d[1] = RETRY_DELAY
  /\ \A k \in DOMAIN d : d[k] <= MAX_RETRY_DELAY
  /\ \A k \in 1..(Len(d) - 1) :
       /\ d[k] <= d[k + 1]
       /\ d[k + 1] = IF 2 * d[k] < MAX_RETRY_DELAY THEN 2 * d[k] ELSE MAX_RETRY_DELAY
  /\ Len(d) = IF call.st = "sleep" THEN Len(call.fails) - 1 ELSE Len(call.fails)

\* C25 witness: after failures of both kinds the delay has reached the
\* ceiling and stayed there
C25_Witness ==
  /\ Len(call.slept) >= 7
  /\ call.slept[5] = 32 /\ call.slept[6] = MAX_RETRY_DELAY
  /\ call.slept[7] = MAX_RETRY_DELAY
  /\ \E i, k \in DOMAIN call.fails :
       call.fails[i] = "exception" /\ call.fails[k] = "rejected"

\* C26: the history held in the run state never has more than
\* MAX_HISTORY_ROUNDS entries.
C26_HistoryBounded == history <= MAX_HISTORY_ROUNDS

\* C27: the supervisory loop is left only with the exit flag set; a failed
\* connect, a lost connection, a failed send and an exception that escapes
\* the graph each lead to the delay, and the delay to another connect
\* attempt; a failed or failing background job does not end the loop either.
C27_OnlyExitFlagEndsLoop ==
  [][/\ (pc' = "exited" /\ pc # "exited") => should_exit'
     /\ (pc = "connect" /\ pc' # "planner") => pc' \in {"connect", "sleep"}
     /\ LostStep => pc' = "sleep"
     /\ (pc = "act" /\ should_reconnect') => pc' = "sleep"
     /\ (pc \in GraphNodes /\ pc' \notin GraphNodes /\ ~should_exit') => pc' = "sleep"
     /\ ((\E j \in DOMAIN jobs : jobs[j].st = "failed")
          \/ (\E j \in DOMAIN jobs' : jobs'[j].st = "failed"))
          => (pc' # "exited" \/ should_exit')
     /\ pc = "sleep" => pc' \in {"sleep", "connect"}]_vars

\* C27 witness: a graph run was ended by an exception (neither flag is set)
\* and the loop is back at a connect attempt
C27_Witness ==
  /\ pc = "connect" /\ run >= 1
  /\ ~should_reconnect /\ ~should_exit

\* C28: when an exception escapes a graph run, the state the loop goes on
\* with has the phase, the task list with its statuses, the attempts, the
\* history and the completed phases of the moment the exception was raised.
C28_ExceptionKeepsProgress ==
  [][ExceptionStep =>
       /\ phase' = phase /\ tasks' = tasks
       /\ task_attempts' = task_attempts /\ history' = history
       /\ completed_phases' = completed_phases]_vars

\* C29: no two tasks of the task list have the same id.
C29_TaskIdsUnique ==
  \A i, k \in DOMAIN tasks : i # k => tasks[i].id # tasks[k].id

\* the knowledge files as they are on disk (src is bookkeeping of the model)
Stored(d) == [p \in DOMAIN d |-> [i \in DOMAIN d[p] |-> [d[p][i] EXCEPT !.src = 0]]]

\* a step of the executor's thread: the primary thread stays where it is
WorkerStep == pc' = pc /\ jobs' # jobs

\* C30: the knowledge files change only in a step of the worker, never in a
\* step of the supervisory loop, planner, observe, dispatch, analyze, act or
\* join; and a step of the worker leaves the task list, the current task,
\* the phase, the history and the control flags as they are.
C30_ExclusiveOwnership ==
  [][/\ Stored(disk') # Stored(disk) => WorkerStep
     /\ WorkerStep =>
          /\ tasks' = tasks /\ current_task' = current_task
          /\ phase' = phase /\ completed_phases' = completed_phases
          /\ history' = history /\ task_attempts' = task_attempts
          /\ task_completed' = task_completed /\ task_stuck' = task_stuck
          /\ should_reconnect' = should_reconnect /\ should_exit' = should_exit
          /\ payload' = payload /\ kb_update_future' = kb_update_future]_vars

\* C30 witness: the worker has written the file of the phase and ended while
\* the primary thread is between dispatch and join with a task in progress
C30_Witness ==
  /\ pc \in {"analyze", "act", "sync_kb"}
  /\ current_task.status = "in_progress"
  /\ kb_update_future # 0 /\ FutureJob.st = "done"
  /\ disk[FutureJob.phase] # <<>>
  /\ \E i \in DOMAIN disk[FutureJob.phase] :
       disk[FutureJob.phase][i].src = kb_update_future

----------------------------------------------------------------------------
(* The claims of the specification, C31 .. C40 *)

\* what load_kb is to return for a file of strings and dicts: as many items,
\* in the order of the file, each string as a dict of category "unknown" and
\* each dict as it is in the file
LoadedFrom(kb, file) ==
  /\ Len(kb) = Len(file)
  /\ \A i \in DOMAIN file :
       /\ file[i].kind = "str" =>
            /\ kb[i].kind = "dict" /\ kb[i].content = file[i].content
            /\ kb[i].category = "unknown"
       /\ file[i].kind = "dict" => kb[i] = file[i]

\* C31: load_kb of a phase without a file (or with an empty one: both are the
\* empty sequence here) is the empty list; load_kb of a file of legacy strings
\* and dicts has, in the file's order, each string as a dict with that content
\* and category "unknown" and each dict unchanged; and this is what a connect
\* puts into the state.
C31_LoadUpgradesLegacy ==
  [][/\ \A p \in DOMAIN disk :
          /\ disk[p] = <<>> => load_kb(disk[p]) = <<>>
          /\ Accepted(disk[p]) => LoadedFrom(load_kb(disk[p]), disk[p])
     /\ (pc = "connect" /\ pc' = "planner" /\ Accepted(disk[phase]))
          => LoadedFrom(knowledge_base', disk[phase])]_vars

\* C31 witness: a connect has loaded a file of a legacy string followed by a
\* dict, and the phase that comes next has no file
C31_Witness ==
  /\ pc = "planner" /\ run = 1 /\ phase = 1
  /\ disk[1] = <<LegacyStr(1), Entry(2, "input_triggered", 0)>>
  /\ knowledge_base = <<Entry(1, "unknown", 0), Entry(2, "input_triggered", 0)>>
  /\ disk[2] = <<>> /\ load_kb(disk[2]) = <<>>

\* a step of observe that read nothing from a connection that is there
EmptyRead ==
  /\ pc = "observe" /\ pc' # "observe"
  /\ server_output' = "" /\ ~should_reconnect'

\* C32: observe asks for a reconnect exactly when it ends the graph (the read
\* reported the connection lost); after an empty read it does not, and the
\* cycle goes on: dispatch is next, then analyze, then act.
C32_EmptyReadGoesOn ==
  [][/\ EmptyRead => pc' = "start_kb_bg"
     /\ (pc = "observe" /\ pc' # "observe") =>
          /\ should_reconnect' <=> pc' = "sleep"
          /\ ~should_reconnect' => pc' = "start_kb_bg"
     /\ pc = "start_kb_bg" => pc' \in {"start_kb_bg", "analyze"}
     /\ pc = "analyze" => pc' \in {"analyze", "act"}]_vars

\* C32 witness: the cycle has reached act after an empty read
C32_Witness ==
  /\ pc = "act" /\ server_output = "" /\ ~should_reconnect
  /\ kb_update_future # 0

\* the planner assigns a task while the list holds no task in_progress
SelectsAfresh ==
  /\ PlannerStep /\ current_task'.status = "in_progress"
  /\ \A i \in DOMAIN tasks : tasks[i].status # "in_progress"

\* C33: when the planner assigns a task and the list held none in_progress,
\* the task assigned is the first pending one in list order: no task before
\* it is pending, it was pending if the list was there before, the other
\* tasks of the list stay as they were, and the current task is a copy of it.
C33_FirstPendingSelected ==
  [][SelectsAfresh =>
       \E i \in DOMAIN tasks' :
         /\ tasks'[i].status = "in_progress" /\ current_task' = tasks'[i]
         /\ \A k \in 1..(i - 1) : tasks'[k].status # "pending"
         /\ (tasks_ref' = tasks_ref /\ tasks_ref # 0) =>
              /\ tasks[i].status = "pending"
              /\ \A k \in DOMAIN tasks : k # i => tasks'[k] = tasks[k]]_vars

\* C33 witness: the first task was reset to pending by a retry resolution
\* (its description is the rewritten one) and has been assigned again while
\* the task after it is pending
C33_Witness ==
  /\ pc = "observe" /\ Len(tasks) = 2
  /\ tasks[1].desc = "rewritten" /\ tasks[1].status = "in_progress"
  /\ tasks[2].status = "pending"
  /\ current_task = tasks[1]

\* the planner is entered with the task-stuck flag set
StuckEntry == PlannerStep /\ task_stuck

\* phase and completed phases stay, no task is assigned, the stuck flag is
\* cleared and the attempts counter reset
ResolutionOnly ==
  /\ phase' = phase /\ completed_phases' = completed_phases
  /\ current_task' = EmptyTask
  /\ \A i \in DOMAIN tasks' : tasks'[i].status = "in_progress" =>
       (i \in DOMAIN tasks /\ tasks[i].status = "in_progress")
  /\ ~task_stuck' /\ task_attempts' = 0
  /\ ~should_exit' /\ pc' = "observe"

C35_DoneStaysDone ==
  [][tasks_ref' = tasks_ref =>
       \A i \in DOMAIN tasks :
         tasks[i].status \in {"completed", "skipped"} =>
           tasks'[i].status = tasks[i].status]_vars

\* the entry of phase 2 with a list of two tasks of the same id, a state the
\* behaviours from Init reach
Phase2EntryReached == Phase2Entry(<<1, 1>>)

\* C36: a reconnect leaves the attempts counter as it is; the counter that
\* analyze stores is below MAX_TASK_ATTEMPTS; and while a task of the list
\* stays in_progress the counter does not fall, so that the task is the
\* current task of at most MAX_TASK_ATTEMPTS analyze steps before it leaves
\* in_progress.
C36_AttemptsBoundedAcrossReconnects ==
  [][/\ ReconnectStep => task_attempts' = task_attempts
     /\ (pc = "analyze" /\ pc' = "act") => task_attempts' < MAX_TASK_ATTEMPTS
     /\ \A i \in DOMAIN tasks :
          (/\ tasks_ref' = tasks_ref
           /\ tasks[i].status = "in_progress"
           /\ tasks'[i].status = "in_progress")
          => task_attempts' >= task_attempts]_vars

\* the join of a job that has ended without an exception
JoinOk == JoinStep /\ kb_update_future # 0 /\ FutureJob.st = "done"

\* what the counter is after a run that counted
Counted(c) == IF c + 1 >= KB_CONSOLIDATION_INTERVAL THEN 0 ELSE c + 1

\* the job joined was dispatched with an empty history and an empty task
\* list (the send of this cycle, if any, came after the dispatch)
DispatchedEmpty ==
  tasks_ref = 0 /\ history = (IF payload # "" THEN 1 ELSE 0)

C38_PointerAgreesWithList ==
  /\ \A i \in DOMAIN tasks :
       tasks[i].status = "in_progress" =>
         (current_task # EmptyTask /\ current_task.id = tasks[i].id)
  /\ current_task # EmptyTask =>
       \E i \in DOMAIN tasks :
         tasks[i].id = current_task.id /\ tasks[i].status = current_task.status

\* the jobs the worker thread is executing
Executing == {k \in DOMAIN jobs : jobs[k].st \in {"running", "consolidating"}}

\* C39: at most one job is executing; jobs are taken in the order of their
\* submission: a job that is executing or has ended has no unfinished job
\* before it, so a job submitted behind an unfinished one has not started;
\* and a step writes the files of at most one job.
C39_OneJobAtATime ==
  [][/\ Cardinality(Executing') <= 1
     /\ \A k \in DOMAIN jobs' :
          jobs'[k].st # "queued" => \A m \in 1..(k - 1) : Finished(jobs'[m])
     /\ Stored(disk') # Stored(disk) => Cardinality(Executing) = 1]_vars

\* C39 witness: a job given up at the join timeout is executing while the job
\* submitted after it waits in the queue
C39_Witness ==
  \E k, m \in DOMAIN jobs :
    /\ k < m
    /\ jobs[k].st = "running" /\ jobs[k].joined = "timeout"
    /\ jobs[m].st = "queued" /\ kb_update_future = jobs[m].id

\* the planner opens the next phase
Rollover == PlannerStep /\ phase' = phase + 1

\* C40: the step that opens a phase leaves the knowledge base of the state
\* empty and a task list that is a new list of new tasks (all pending, but
\* the first, which is assigned; none with a result); it writes no knowledge
\* file; and the aggregated view of the new phase is made of the entries of
\* the files of the phases before it, the one just completed included.
C40_RolloverResetsMemoryOnly ==
  [][Rollover =>
       /\ knowledge_base' = <<>>
       /\ tasks_ref' # tasks_ref
       /\ \A i \in DOMAIN tasks' :
            /\ tasks'[i].result = "none"
            /\ tasks'[i].status = (IF i = 1 THEN "in_progress" ELSE "pending")
       /\ disk' = disk
       /\ LET view == get_aggregated_kb(disk', phase', knowledge_base') IN
            /\ \A q \in 1..phase : \A i \in DOMAIN load_kb(disk[q]) :
                 \E n \in DOMAIN view : view[n] = Shown(load_kb(disk[q])[i], q)
            /\ \A n \in DOMAIN view :
                 \E q \in 1..phase : \E i \in DOMAIN load_kb(disk[q]) :
                   view[n] = Shown(load_kb(disk[q])[i], q)]_vars

\* C40 witness: phase 2 has been opened with an empty knowledge base and a
\* new task list while the file of phase 1 holds what was learnt there
C40_Witness ==
  /\ phase = 2 /\ pc = "observe" /\ completed_phases = <<1>>
  /\ knowledge_base = <<>> /\ disk[1] # <<>>
  /\ tasks # <<>> /\ current_task = tasks[1]
  /\ get_aggregated_kb(disk, phase, knowledge_base) # <<>>

====
